---- MODULE Spec2Model ----
(***************************************************************************)
(* A model of pyhelpers.ops.comp (parse_size, get_number_of_chunks,        *)
(* get_extreme_outlier_bounds, find_closest_date) and of                   *)
(* pyhelpers.settings.mpl_preferences.                                     *)
(*                                                                         *)
(* Python values are modelled as follows.                                  *)
(*   int    a sign and a magnitude; the magnitude is a sequence of limbs   *)
(*          in base 10^6, least significant first, without leading zero    *)
(*          limbs (<<>> is 0, <<1024>> is 1024, <<48576, 1>> is 1048576).   *)
(*   float  an IEEE-754 double m * 2^e, m < 2^53 a sequence of limbs in    *)
(*          base 2^15; every float operation rounds to nearest, ties to    *)
(*          even.                                                          *)
(*   str    a sequence of one-character strings.                           *)
(***************************************************************************)
EXTENDS Integers, Sequences, FiniteSets, TLC

VARIABLES call, ret, first, rcParams, rcParamsDefault, pltRcParams, serifShared

vars == <<call, ret, first, rcParams, rcParamsDefault, pltRcParams, serifShared>>

(***************************************************************************)
(* Arbitrary-precision arithmetic on magnitudes, limbs in base b.          *)
(***************************************************************************)
Max(S) == CHOOSE i \in S : \A j \in S : j <= i

Min(i, j) == IF i < j THEN i ELSE j

Norm(n) ==
    LET nz == {i \in 1..Len(n) : n[i] # 0}
    IN  IF nz = {} THEN <<>> ELSE SubSeq(n, 1, Max(nz))

RECURSIVE FromInt(_, _)
FromInt(b, k) ==
    IF k = 0 THEN <<>> ELSE <<k % b>> \o FromInt(b, k \div b)

RECURSIVE ToInt(_, _)
ToInt(b, n) ==
    IF n = <<>> THEN 0 ELSE n[1] + b * ToInt(b, Tail(n))

RECURSIVE MulCarry(_, _, _, _)
MulCarry(b, n, k, c) ==
    IF n = <<>> THEN FromInt(b, c)
    ELSE LET t == n[1] * k + c
         IN  <<t % b>> \o MulCarry(b, Tail(n), k, t \div b)

\* n * k for a small k.
MulSmall(b, n, k) == IF k = 0 THEN <<>> ELSE MulCarry(b, n, k, 0)

\* Long division of the limbs i, i-1, ..., 1 of n by a small k, r being the
\* remainder left by the limbs above: the limbs of the quotient, most
\* significant first, and then the remainder.
RECURSIVE DivFrom(_, _, _, _, _)
DivFrom(b, n, k, i, r) ==
    IF i = 0 THEN <<r>>
    ELSE LET t == r * b + n[i]
         IN  <<t \div k>> \o DivFrom(b, n, k, i - 1, t % k)

\* Quotient (with leading zero limbs) and remainder of n by a small k.
DivRem(b, n, k) ==
    LET d == DivFrom(b, n, k, Len(n), 0)
    IN  [q |-> [i \in 1..Len(n) |-> d[Len(n) + 1 - i]], r |-> d[Len(n) + 1]]

DivSmall(b, n, k) == Norm(DivRem(b, n, k).q)

RECURSIVE AddCarry(_, _, _, _)
AddCarry(b, x, y, c) ==
    IF x = <<>> /\ y = <<>> THEN FromInt(b, c)
    ELSE LET t == (IF x = <<>> THEN 0 ELSE x[1]) + (IF y = <<>> THEN 0 ELSE y[1]) + c
         IN  <<t % b>>
               \o AddCarry(b, IF x = <<>> THEN <<>> ELSE Tail(x),
                           IF y = <<>> THEN <<>> ELSE Tail(y), t \div b)

Add(b, x, y) == AddCarry(b, x, y, 0)

\* x - y for x >= y.
RECURSIVE SubBorrow(_, _, _, _)
SubBorrow(b, x, y, c) ==
    IF x = <<>> THEN <<>>
    ELSE LET t == x[1] - (IF y = <<>> THEN 0 ELSE y[1]) - c
         IN  <<IF t < 0 THEN t + b ELSE t>>
               \o SubBorrow(b, Tail(x), IF y = <<>> THEN <<>> ELSE Tail(y),
                            IF t < 0 THEN 1 ELSE 0)

Sub(b, x, y) == Norm(SubBorrow(b, x, y, 0))

\* -1, 0 or 1 as x is below, equal to or above y.
Cmp(x, y) ==
    IF Len(x) # Len(y) THEN (IF Len(x) < Len(y) THEN -1 ELSE 1)
    ELSE LET d == {i \in 1..Len(x) : x[i] # y[i]}
         IN  IF d = {} THEN 0
             ELSE IF x[Max(d)] < y[Max(d)] THEN -1 ELSE 1

Less(x, y) == Cmp(x, y) < 0

\* x * y for limbs whose squares are small.
RECURSIVE Mul(_, _, _)
Mul(b, x, y) ==
    IF x = <<>> \/ y = <<>> THEN <<>>
    ELSE AddCarry(b, <<0>> \o Mul(b, x, Tail(y)), MulCarry(b, x, y[1], 0), 0)

\* n * k^i
RECURSIVE Scale(_, _, _, _)
Scale(b, n, k, i) == IF i = 0 THEN n ELSE MulCarry(b, Scale(b, n, k, i - 1), k, 0)

\* The magnitude n, given in base k1 * k2, in base t.
RECURSIVE Convert(_, _, _, _)
Convert(t, n, k1, k2) ==
    IF n = <<>> THEN <<>>
    ELSE MulCarry(t, MulCarry(t, Convert(t, Tail(n), k1, k2), k1, 0), k2, n[1])

(***************************************************************************)
(* Python int: magnitudes in base 10^6.                                    *)
(***************************************************************************)
DecBase == 10 ^ 6

IntOf(k) == FromInt(DecBase, k)

IntAdd(x, y) == Add(DecBase, x, y)

IntSub(x, y) == Sub(DecBase, x, y)

\* n * k for a small int k
IntMul(n, k) == MulSmall(DecBase, n, k)

\* n * k^i for a small int k
IntScale(n, k, i) == Scale(DecBase, n, k, i)

\* k^i for a small int k
IntPow(k, i) == Scale(DecBase, <<1>>, k, i)

AbsDiff(x, y) == IF Less(x, y) THEN IntSub(y, x) ELSE IntSub(x, y)

(***************************************************************************)
(* Python float: IEEE-754 double precision, round to nearest, ties to even.*)
(* Mantissas are magnitudes in base 2^15.                                  *)
(***************************************************************************)
LimbBits == 15

BinBase == 2 ^ LimbBits

MantissaBits == 53

ToBinary(n) == Convert(BinBase, n, 10 ^ 3, 10 ^ 3)

ToDecimal(n) == Convert(DecBase, n, 2 ^ 7, 2 ^ 8)

BitLen(n) ==
    IF n = <<>> THEN 0
    ELSE LimbBits * (Len(n) - 1)
         + (CHOOSE w \in 1..LimbBits : n[Len(n)] < 2 ^ w /\ n[Len(n)] >= 2 ^ (w - 1))

\* n * 2^s
MulPow2(n, s) ==
    IF n = <<>> THEN <<>>
    ELSE [i \in 1..(s \div LimbBits) |-> 0] \o MulSmall(BinBase, n, 2 ^ (s % LimbBits))

\* n divided by 2^s: the quotient, and whether anything was shifted out.
DivPow2(n, s, sticky) ==
    LET whole == Min(s \div LimbBits, Len(n))
        d     == DivRem(BinBase, SubSeq(n, whole + 1, Len(n)), 2 ^ (s % LimbBits))
    IN  [q      |-> Norm(d.q),
         sticky |-> sticky \/ d.r # 0 \/ \E i \in 1..whole : n[i] # 0]

Odd(n) == n # <<>> /\ n[1] % 2 = 1

\* n rounded to an integer multiple of 2^s, ties to even, as a multiple of 2^s;
\* sticky tells that the number rounded is n plus a fraction of a unit.
RoundShift(n, s, sticky) ==
    IF s <= 0 THEN n
    ELSE LET half == DivPow2(n, s - 1, sticky)
             q    == DivPow2(n, s, FALSE).q
             up   == Odd(half.q) /\ (half.sticky \/ Odd(q))
         IN  IF up THEN Add(BinBase, q, <<1>>) ELSE q

\* The double nearest to (n + f) * 2^e, where 0 <= f < 1 and f > 0 iff sticky.
\* When sticky, n has more than MantissaBits bits.
RoundToDouble(n, sticky, e) ==
    LET s == BitLen(n) - MantissaBits
        r == RoundShift(n, s, sticky)
    IN  IF s <= 0 THEN [m |-> n, e |-> e]
        ELSE IF BitLen(r) > MantissaBits
             THEN [m |-> DivSmall(BinBase, r, 2), e |-> e + s + 1]
        ELSE [m |-> r, e |-> e + s]

\* float(n) for an int n >= 0; also an int standing where a float may stand.
IntToDouble(n) == RoundToDouble(ToBinary(n), FALSE, 0)

ExactDouble(n) == [m |-> ToBinary(n), e |-> 0]

\* Quotient and remainder flag of n by the product of the small numbers ks.
RECURSIVE DivAll(_, _, _)
DivAll(n, ks, inexact) ==
    IF ks = <<>> THEN [q |-> n, inexact |-> inexact]
    ELSE LET d == DivRem(BinBase, n, ks[1])
         IN  DivAll(Norm(d.q), Tail(ks), inexact \/ d.r # 0)

\* x / (ks[1] * ... * ks[n]) for a float or an exact int x and small ints ks:
\* enough extra bits are kept for the quotient to round once, correctly.
Quotient(x, ks) ==
    IF x.m = <<>> THEN [m |-> <<>>, e |-> 0]
    ELSE LET need  == MantissaBits + 2 + (LimbBits + 1) * Len(ks) - BitLen(x.m)
             guard == IF need > 0 THEN need ELSE 0
             d     == DivAll(MulPow2(x.m, guard), ks, FALSE)
         IN  RoundToDouble(d.q, d.inexact, x.e - guard)

DivDouble(x, k) == Quotient(x, <<k>>)

MulDouble(x, y) ==
    IF x.m = <<>> \/ y.m = <<>> THEN [m |-> <<>>, e |-> 0]
    ELSE RoundToDouble(Mul(BinBase, x.m, y.m), FALSE, x.e + y.e)

\* The integer part of a non-negative float, in base 2^15.
Floor(x) == IF x.e >= 0 THEN MulPow2(x.m, x.e) ELSE DivPow2(x.m, 0 - x.e, FALSE).q

\* int(x) of a non-negative float: truncation.
DoubleToInt(x) == ToDecimal(Floor(x))

\* Whether a non-negative float has a fractional part.
HasFraction(x) == x.e < 0 /\ DivPow2(x.m, 0 - x.e, FALSE).sticky

\* x < k for a non-negative float x and an int k.
DoubleLess(x, k) == Less(Floor(x), FromInt(BinBase, k))

\* x > k for a non-negative float x and a non-negative int k (a magnitude).
DoubleGreater(x, k) ==
    LET c == Cmp(Floor(x), ToBinary(k))
    IN  c > 0 \/ (c = 0 /\ HasFraction(x))

\* x * 10^p rounded to an integer, ties to even: the digits of f"{x:.{p}f}".
FixedDigits(x, p) ==
    LET n == MulSmall(BinBase, x.m, 10 ^ p)
    IN  ToDecimal(IF x.e >= 0 THEN MulPow2(n, x.e) ELSE RoundShift(n, 0 - x.e, FALSE))

(***************************************************************************)
(* Python str: sequences of characters.                                    *)
(***************************************************************************)
DigitChars == <<"0", "1", "2", "3", "4", "5", "6", "7", "8", "9">>

IsDigit(c) == \E i \in 1..10 : DigitChars[i] = c

DigitVal(c) == (CHOOSE i \in 1..10 : DigitChars[i] = c) - 1

LowerChars == <<"b", "e", "g", "i", "k", "m", "p", "t", "x", "y", "z">>

UpperChars == <<"B", "E", "G", "I", "K", "M", "P", "T", "X", "Y", "Z">>

\* c.upper(), for the letters that unit symbols are written with.
Upper(c) ==
    IF \E i \in 1..Len(LowerChars) : LowerChars[i] = c
    THEN UpperChars[CHOOSE i \in 1..Len(LowerChars) : LowerChars[i] = c]
    ELSE c

\* s.split(): the maximal runs of non-blank characters of s.
Split(s) ==
    LET starts == {i \in 1..Len(s) : s[i] # " " /\ (i = 1 \/ s[i - 1] = " ")}
        EndOf(i) == Max({j \in i..Len(s) : \A l \in i..j : s[l] # " "})
        Nth(k) == CHOOSE i \in starts : Cardinality({j \in starts : j < i}) = k - 1
    IN  [k \in 1..Cardinality(starts) |-> SubSeq(s, Nth(k), EndOf(Nth(k)))]

\* re.match(r'.*i[Bb]', sym)
ReMatchBinary(sym) ==
    \E k \in 1..(Len(sym) - 1) : sym[k] = "i" /\ sym[k + 1] \in {"B", "b"}

\* The decimal digits of an int n > 0, six to a limb below the leading one.
DecChars(n) ==
    LET top   == n[Len(n)]
        lead  == CHOOSE w \in 1..6 : top < 10 ^ w /\ top >= 10 ^ (w - 1)
        Digit(limb, place) == DigitChars[((n[limb] \div (10 ^ place)) % 10) + 1]
    IN  [i \in 1..(lead + 6 * (Len(n) - 1)) |->
            IF i <= lead THEN Digit(Len(n), lead - i)
            ELSE Digit(Len(n) - 1 - ((i - lead - 1) \div 6), 5 - ((i - lead - 1) % 6))]

\* The text of digits / 10^p with exactly p decimal places.
FixedText(digits, p) ==
    LET raw == IF digits = <<>> THEN <<>> ELSE DecChars(digits)
        all == [i \in 1..(p + 1 - Len(raw)) |-> "0"] \o raw
        cut == Len(all) - p
    IN  IF p = 0 THEN all
        ELSE SubSeq(all, 1, cut) \o <<".">> \o SubSeq(all, cut + 1, Len(all))

\* The int that a run of decimal digits writes.
DigitsValue(s) ==
    LET At(i) == IF i >= 1 THEN DigitVal(s[i]) ELSE 0
        Six(i) == 100000 * At(i + 1) + 10000 * At(i + 2) + 1000 * At(i + 3)
                  + 100 * At(i + 4) + 10 * At(i + 5) + At(i + 6)
    IN  Norm([l \in 1..((Len(s) + 5) \div 6) |-> Six(Len(s) - 6 * l)])

\* float(val) for a decimal literal [sign] digits [. digits]; no other text
\* among the inputs (none has an exponent, 'inf' or 'nan') is a number.
ParseFloat(val) ==
    LET signed == val # <<>> /\ val[1] \in {"-", "+"}
        body   == IF signed THEN Tail(val) ELSE val
        dots   == {i \in 1..Len(body) : body[i] = "."}
        plain  == SelectSeq(body, LAMBDA c : c # ".")
        places == IF dots = {} THEN 0 ELSE Len(body) - (CHOOSE i \in dots : TRUE)
        ok     == /\ Cardinality(dots) <= 1
                  /\ plain # <<>>
                  /\ \A i \in 1..Len(plain) : IsDigit(plain[i])
    IN  IF ~ok THEN [ok |-> FALSE]
        ELSE [ok  |-> TRUE,
              neg |-> signed /\ val[1] = "-",
              x   |-> DivDouble(ExactDouble(DigitsValue(plain)), 10 ^ places)]

(***************************************************************************)
(* parse_size                                                              *)
(***************************************************************************)
BinaryFactor == 1024

DecimalFactor == 1000

min_unit == "B"

units_prefixes == <<"K", "M", "G", "T", "P", "E", "Z", "Y">>

BinaryUnits == [i \in 1..Len(units_prefixes) |-> <<units_prefixes[i], "i", min_unit>>]

DecimalUnits == [i \in 1..Len(units_prefixes) |-> <<units_prefixes[i], min_unit>>]

FactorOf(binary) == IF binary THEN BinaryFactor ELSE DecimalFactor

UnitsOf(binary) == IF binary THEN BinaryUnits ELSE DecimalUnits

PyInt(neg, mag) == [kind |-> "int", neg |-> neg /\ mag # <<>>, mag |-> mag]

PyStr(chars) == [kind |-> "str", chars |-> chars]

Raise(exc) == [kind |-> "raise", exc |-> exc]

\* The unit system as the suffix alone would decide it.
SymIsBinaryBySuffixAlone(sym, binary) == ReMatchBinary(sym)

\* Whether the byte count is 1024-based: an 'iB' suffix makes it so, and so
\* does binary.
SymIsBinary(sym, binary) == ReMatchBinary(sym) \/ binary

\* The string branch of parse_size.
ParseSizeStr(chars, binary) ==
    LET toks == Split(chars)
    IN  IF Len(toks) # 2 THEN Raise("ValueError")
        ELSE LET val     == toks[1]
                 sym     == toks[2]
                 bin     == SymIsBinary(sym, binary)
                 factor  == FactorOf(bin)
                 units   == UnitsOf(bin)
                 matches == {i \in 1..Len(units) : units[i][1] = Upper(sym[1])}
             IN  IF matches = {} THEN Raise("IndexError")
                 ELSE LET i == CHOOSE i \in matches : \A j \in matches : i <= j
                          f == ParseFloat(val)
                      IN  IF ~f.ok THEN Raise("ValueError")
                          ELSE PyInt(f.neg,
                                     DoubleToInt(MulDouble(f.x, IntToDouble(IntPow(factor, i)))))

\* The text parse_size renders for temp_size at the given unit.
FormatSize(is_negative, temp_size, precision, unit) ==
    PyStr((IF is_negative THEN <<"-">> ELSE <<>>)
          \o FixedText(FixedDigits(temp_size, precision), precision)
          \o <<" ">> \o unit)

\* The for loop of the numeric branch, from the j-th of [min_unit] + units on.
RECURSIVE FormatLoop(_, _, _, _, _)
FormatLoop(size, temp_size, j, binary, precision) ==
    LET units == <<<<min_unit>>>> \o UnitsOf(binary)
    IN  IF j > Len(units) THEN size
        ELSE IF DoubleLess(temp_size, FactorOf(binary))
             THEN FormatSize(size.neg, temp_size, precision, units[j])
        ELSE FormatLoop(size,
                        IF units[j] # units[Len(units)]
                        THEN DivDouble(temp_size, FactorOf(binary))
                        ELSE temp_size,
                        j + 1, binary, precision)

\* The numeric branch of parse_size.
ParseSizeNum(size, binary, precision) ==
    FormatLoop(size, ExactDouble(size.mag), 1, binary, precision)

parse_size(size, binary, precision) ==
    IF size.kind = "str" THEN ParseSizeStr(size.chars, binary)
    ELSE ParseSizeNum(size, binary, precision)

(***************************************************************************)
(* Calls of parse_size and the inputs they are given.                      *)
(***************************************************************************)
MaxPower == 9

MaxPrecision == 2

NoCall == [op |-> "none"]

None == [kind |-> "None"]

\* The result of a call that has not run yet.
Pending == [kind |-> "pending"]

\* Decimal literals: their text, and the number the text denotes
\* (digits / 10^places, negated when neg).
ValueTokens ==
    { [text |-> <<"1">>, neg |-> FALSE, digits |-> 1, places |-> 0],
      [text |-> <<"3">>, neg |-> FALSE, digits |-> 3, places |-> 0],
      [text |-> <<"1", ".", "5">>, neg |-> FALSE, digits |-> 15, places |-> 1],
      [text |-> <<"-", "2">>, neg |-> TRUE, digits |-> 2, places |-> 0],
      [text |-> <<"1", "2", "3", ".", "4", "5">>, neg |-> FALSE,
       digits |-> 12345, places |-> 2],
      [text |-> <<"1", ".", "0", "0", "1">>, neg |-> FALSE,
       digits |-> 1001, places |-> 3] }

\* Tokens that are no number.
WordTokens == { <<"a", "b", "c">>, <<"1", ".", "2", ".", "3">>, <<"-">> }

Suffixes == { <<"B">>, <<"i", "B">> }

\* The unit symbols 'KB'..'YB' and 'KiB'..'YiB'.
UnitSymbols ==
    { <<units_prefixes[i]>> \o suf : i \in 1..Len(units_prefixes), suf \in Suffixes }

\* Symbols that are none of them.
OtherSymbols ==
    { <<"M", "X">>, <<"M">>, <<"k", "b">>, <<"m", "i", "b">>, <<"B">>, <<"X", "B">>,
      <<"i", "B">> }

SizeStrings ==
    { v \o <<" ">> \o u :
        v \in {t.text : t \in ValueTokens} \cup WordTokens,
        u \in UnitSymbols \cup OtherSymbols }
    \cup { <<>>, <<"5">>, <<"5", "M", "B">>, <<"5", " ", "M", "B", " ", "x">>,
           <<" ", "5", " ", " ", "M", "i", "B", " ">> }

\* Byte counts: around the powers of both factors, up to MaxPower, and some
\* negative ones.
SizeNumbers ==
    { PyInt(FALSE, IntSub(IntMul(IntPow(f, j), m), IntOf(d))) :
        f \in {BinaryFactor, DecimalFactor}, j \in 0..MaxPower,
        m \in {1, 12, 1023}, d \in {0, 1} }
    \cup { PyInt(TRUE, IntOf(5)), PyInt(TRUE, IntOf(1536)),
           PyInt(TRUE, IntPow(DecimalFactor, 3)) }
    \cup { PyInt(FALSE, IntOf(n)) : n \in {1050, 1250, 1280, 129446707} }

ParseSizeCall(size, binary, precision) ==
    [op |-> "parse_size", size |-> size, binary |-> binary, precision |-> precision]

SizeCalls ==
    { ParseSizeCall(PyStr(chars), binary, 1) :
        chars \in SizeStrings, binary \in BOOLEAN }
    \cup { ParseSizeCall(size, binary, precision) :
             size \in SizeNumbers, binary \in BOOLEAN, precision \in 0..MaxPrecision }

\* parse_size(size, binary) on a string.
ParseString ==
    /\ call.op = "parse_size"
    /\ call.size.kind = "str"
    /\ ret = Pending
    /\ ret' = parse_size(call.size, call.binary, call.precision)
    /\ UNCHANGED <<call, first, rcParams, rcParamsDefault, pltRcParams, serifShared>>

\* parse_size(size, binary, precision) on a number.
FormatNumber ==
    /\ call.op = "parse_size"
    /\ call.size.kind = "int"
    /\ ret = Pending
    /\ ret' = parse_size(call.size, call.binary, call.precision)
    /\ UNCHANGED <<call, first, rcParams, rcParamsDefault, pltRcParams, serifShared>>

\* parse_size(parse_size(n, binary, precision), binary): the second call.
ParseBack ==
    /\ call.op = "parse_size"
    /\ call.size.kind = "int"
    /\ ret # Pending
    /\ first = NoCall
    /\ call' = ParseSizeCall(ret, call.binary, 1)
    /\ ret' = parse_size(ret, call.binary, 1)
    /\ first' = [call |-> call, ret |-> ret]
    /\ UNCHANGED <<rcParams, rcParamsDefault, pltRcParams, serifShared>>

(***************************************************************************)
(* get_number_of_chunks                                                    *)
(***************************************************************************)
\* round(x, 1): the float nearest to x rounded to one decimal place.
Round1(x) == DivDouble(ExactDouble(FixedDigits(x, 1)), 10)

\* math.ceil(x) of a non-negative float.
Ceil(x) == IF HasFraction(x) THEN IntAdd(DoubleToInt(x), <<1>>) ELSE DoubleToInt(x)

\* The size in bytes that get_number_of_chunks reads for file_or_obj:
\* os.path.getsize of an existing path, sys.getsizeof of anything else.
SizeOf(file_or_obj) ==
    IF file_or_obj.is_str /\ file_or_obj.exists
    THEN file_or_obj.getsize
    ELSE file_or_obj.getsizeof

\* Truth value of chunk_size_limit.
Truthy(v) == v.kind = "int" /\ v.mag # <<>>

get_number_of_chunks(file_or_obj, chunk_size_limit, binary) ==
    LET factor          == FactorOf(binary)
        size            == SizeOf(file_or_obj)
        file_size_in_mb == Round1(Quotient(ExactDouble(size), <<factor, factor>>))
    IN  IF Truthy(chunk_size_limit)
        THEN IF DoubleGreater(file_size_in_mb, chunk_size_limit.mag)
             THEN PyInt(FALSE, Ceil(DivDouble(file_size_in_mb,
                                              ToInt(DecBase, chunk_size_limit.mag))))
             ELSE PyInt(FALSE, <<1>>)
        ELSE None

MaxMegas == 3

\* Sizes in bytes: around the multiples of a twentieth of a MB and of a MiB.
ChunkBytes ==
    { IntAdd(DivSmall(DecBase, IntMul(IntPow(f, 2), t), 20), IntOf(d)) :
        f \in {BinaryFactor, DecimalFactor}, t \in 0..(20 * MaxMegas), d \in {0, 1} }

ChunkObjects ==
    { [is_str |-> TRUE, exists |-> TRUE, getsize |-> n, getsizeof |-> <<49>>] :
        n \in ChunkBytes }
    \cup { [is_str |-> str, exists |-> FALSE, getsize |-> <<>>, getsizeof |-> n] :
             str \in BOOLEAN, n \in {IntPow(BinaryFactor, 2), IntOf(8000128)} }

ChunkLimits == {None} \cup { PyInt(FALSE, IntOf(n)) : n \in {0, 1, 2, 5, 50} }

ChunkCalls ==
    { [op |-> "get_number_of_chunks", file_or_obj |-> obj,
       chunk_size_limit |-> limit, binary |-> binary] :
        obj \in ChunkObjects, limit \in ChunkLimits, binary \in BOOLEAN }

GetNumberOfChunks ==
    /\ call.op = "get_number_of_chunks"
    /\ ret = Pending
    /\ ret' = get_number_of_chunks(call.file_or_obj, call.chunk_size_limit, call.binary)
    /\ UNCHANGED <<call, first, rcParams, rcParamsDefault, pltRcParams, serifShared>>

(***************************************************************************)
(* get_extreme_outlier_bounds.  The data are integers and k is a multiple  *)
(* of 1/2, so every float involved is a multiple of 1/8 and is computed    *)
(* exactly; floats are held as their numerators over the denominator.      *)
(***************************************************************************)
RECURSIVE Insert(_, _)
Insert(sorted, x) ==
    IF sorted = <<>> THEN <<x>>
    ELSE IF x <= sorted[1] THEN <<x>> \o sorted
    ELSE <<sorted[1]>> \o Insert(Tail(sorted), x)

RECURSIVE Sort(_)
Sort(dat) == IF dat = <<>> THEN <<>> ELSE Insert(Sort(Tail(dat)), dat[1])

\* np.percentile(num_dat, 25 * quarter), as a number of quarters: linear
\* interpolation between the two order statistics around (n - 1) * quarter / 4.
Percentile(num_dat, quarter) ==
    LET a    == Sort(num_dat)
        pos  == (Len(a) - 1) * quarter
        prev == pos \div 4 + 1
        next == IF prev < Len(a) THEN prev + 1 ELSE prev
    IN  4 * a[prev] + (pos % 4) * (a[next] - a[prev])

\* The lower bound left as computed.
Unclamped(x) == x

\* np.max([0, x])
ClampAtZero(x) == IF x > 0 THEN x ELSE 0

\* k is given in halves; the bounds are returned in eighths.
get_extreme_outlier_bounds(num_dat, k) ==
    LET q1  == Percentile(num_dat, 1)
        q3  == Percentile(num_dat, 3)
        iqr == q3 - q1
    IN  [kind |-> "tuple",
         lower_bound |-> ClampAtZero(2 * q1 - k * iqr),
         upper_bound |-> 2 * q3 + k * iqr]

MaxLenData == 3

MaxAbsData == 3

MaxTwiceK == 4

RECURSIVE SeqsUpTo(_, _)
SeqsUpTo(S, n) ==
    IF n = 0 THEN {<<>>}
    ELSE LET shorter == SeqsUpTo(S, n - 1)
         IN  shorter \cup { Append(q, x) : q \in {r \in shorter : Len(r) = n - 1}, x \in S }

BoundsCalls ==
    { [op |-> "get_extreme_outlier_bounds", num_dat |-> num_dat, twice_k |-> k] :
        num_dat \in SeqsUpTo((0 - MaxAbsData)..MaxAbsData, MaxLenData) \ {<<>>},
        k \in (0 - 2)..MaxTwiceK }

GetExtremeOutlierBounds ==
    /\ call.op = "get_extreme_outlier_bounds"
    /\ ret = Pending
    /\ ret' = get_extreme_outlier_bounds(call.num_dat, call.twice_k)
    /\ UNCHANGED <<call, first, rcParams, rcParamsDefault, pltRcParams, serifShared>>

(***************************************************************************)
(* find_closest_date.  A datetime value is a number of hours; a date       *)
(* string is a format together with the fields the format writes: the day  *)
(* for '%Y-%m-%d', the day and the time of day for the default format.     *)
(***************************************************************************)
HoursPerDay == 24

DateFormat == "%Y-%m-%d"

DefaultFormat == "%Y-%m-%d %H:%M:%S.%f"

Datetime(t) == [kind |-> "datetime", t |-> t]

DateString(fmt, fields) == [kind |-> "str", fmt |-> fmt, fields |-> fields]

\* pd.to_datetime(x): a field the string does not carry reads as 0.
to_datetime(x) ==
    IF x.kind = "datetime" THEN x
    ELSE Datetime(x.fields[1] * HoursPerDay
                  + (IF Len(x.fields) > 1 THEN x.fields[2] ELSE 0))

\* d.strftime(fmt): only the fields that fmt names are written.
strftime(d, fmt) ==
    DateString(fmt, IF fmt = DateFormat
                    THEN <<d.t \div HoursPerDay>>
                    ELSE <<d.t \div HoursPerDay, d.t % HoursPerDay>>)

Abs(n) == IF n < 0 THEN 0 - n ELSE n

\* The time from date to x, earlier counting as less.
SignedDistance(x, date) == to_datetime(x).t - to_datetime(date).t

\* The key of min(): abs(pd.to_datetime(x) - pd.to_datetime(date)).
Distance(x, date) == Abs(to_datetime(x).t - to_datetime(date).t)

\* min(lookup_dates, key=...): the first element whose key no element undercuts.
RECURSIVE MinFrom(_, _, _, _)
MinFrom(lookup_dates, date, best, i) ==
    IF i > Len(lookup_dates) THEN best
    ELSE MinFrom(lookup_dates, date,
                 IF Distance(lookup_dates[i], date) < Distance(best, date)
                 THEN lookup_dates[i] ELSE best,
                 i + 1)

find_closest_date(date, lookup_dates, as_datetime, fmt) ==
    IF lookup_dates = <<>> THEN Raise("ValueError")
    ELSE LET closest_date == MinFrom(lookup_dates, date, lookup_dates[1], 2)
         IN  IF as_datetime
             THEN IF closest_date.kind = "str" THEN to_datetime(closest_date)
                  ELSE closest_date
             ELSE IF closest_date.kind = "datetime" THEN strftime(closest_date, fmt)
                  ELSE closest_date

MaxDay == 1

MaxLookup == 2

Hours == {0, 12}

Datetimes == { Datetime(d * HoursPerDay + h) : d \in 0..MaxDay, h \in Hours }

DateStrings ==
    { DateString(DateFormat, <<d>>) : d \in 0..MaxDay }
    \cup { DateString(DefaultFormat, <<d, h>>) : d \in 0..MaxDay, h \in Hours }

DateCalls ==
    { [op |-> "find_closest_date", date |-> date, lookup_dates |-> lookup_dates,
       as_datetime |-> as_datetime, fmt |-> fmt] :
        date \in Datetimes \cup DateStrings,
        lookup_dates \in SeqsUpTo(Datetimes \cup DateStrings, MaxLookup),
        as_datetime \in BOOLEAN, fmt \in {DateFormat, DefaultFormat} }

FindClosestDate ==
    /\ call.op = "find_closest_date"
    /\ ret = Pending
    /\ ret' = find_closest_date(call.date, call.lookup_dates, call.as_datetime,
                                call.fmt)
    /\ UNCHANGED <<call, first, rcParams, rcParamsDefault, pltRcParams, serifShared>>

(***************************************************************************)
(* mpl_preferences.  matplotlib holds two settings objects, rcParams (the  *)
(* settings in force) and rcParamsDefault; pltRcParams is the object the   *)
(* name plt.rcParams is bound to.  The value of 'font.serif' is a list     *)
(* object: serifShared is whether the two settings objects hold the same   *)
(* one.  matplotlib from 3.3 on fills rcParams at import with the values   *)
(* of rcParamsDefault themselves, earlier versions with validated copies.  *)
(* Storing a list through a settings object stores a fresh validated copy. *)
(* legend.labelspacing is in tenths.                                       *)
(***************************************************************************)
DefaultSettings ==
    [font_size |-> 10, font_weight |-> "normal", legend_labelspacing |-> 5,
     font_family |-> "sans-serif",
     font_serif |-> <<"DejaVu Serif", "Times New Roman", "serif">>]

FontNames == {"Cambria", "Georgia", "Times New Roman"}

\* The object plt.rcParams names.
PltRcParams == IF pltRcParams = "rcParams" THEN rcParams ELSE rcParamsDefault

\* font_name in serif_fonts
InList(font_name, serif_fonts) ==
    \E i \in 1..Len(serif_fonts) : serif_fonts[i] = font_name

\* [font_name] + plt.rcParams['font.serif']: a new list.
Prepend(serif_fonts, font_name) == <<font_name>> \o serif_fonts

\* serif_fonts.insert(0, serif_fonts.pop(serif_fonts.index(font_name))): the
\* list after the change made to it in place.
MoveToFront(serif_fonts, font_name) ==
    LET i == CHOOSE j \in 1..Len(serif_fonts) :
                 /\ serif_fonts[j] = font_name
                 /\ \A h \in 1..(j - 1) : serif_fonts[h] # font_name
    IN  <<font_name>> \o SubSeq(serif_fonts, 1, i - 1)
                      \o SubSeq(serif_fonts, i + 1, Len(serif_fonts))

\* Whether the call reaches the assignments to 'font.family' and 'font.serif'.
UsesFont(font_name, is_file) == font_name # "None" /\ is_file

\* The settings object plt.rcParams names after the writes made when reset is
\* false.
Preferred(settings, font_name, is_file) ==
    LET sized == [settings EXCEPT !.font_size = 13, !.font_weight = "normal",
                                  !.legend_labelspacing = 7]
    IN  IF UsesFont(font_name, is_file)
        THEN [sized EXCEPT !.font_family = "serif",
                           !.font_serif =
                               IF InList(font_name, sized.font_serif)
                               THEN MoveToFront(sized.font_serif, font_name)
                               ELSE Prepend(sized.font_serif, font_name)]
        ELSE sized

\* The settings object plt.rcParams does not name: it changes when its
\* 'font.serif' is the list that is reordered in place.
Aliased(settings, named, font_name, is_file) ==
    IF /\ serifShared
       /\ UsesFont(font_name, is_file)
       /\ InList(font_name, named.font_serif)
    THEN [settings EXCEPT !.font_serif = MoveToFront(named.font_serif, font_name)]
    ELSE settings

\* mpl_preferences(reset=False, font_name); is_file is whether findfont's
\* answer for font_name is an existing file.
SetPreferences ==
    \E font_name \in FontNames \cup {"None"}, is_file \in BOOLEAN :
        /\ call' = [op |-> "mpl_preferences", reset |-> FALSE, font_name |-> font_name]
        /\ ret' = None
        /\ rcParams' = IF pltRcParams = "rcParams"
                       THEN Preferred(rcParams, font_name, is_file)
                       ELSE Aliased(rcParams, rcParamsDefault, font_name, is_file)
        /\ rcParamsDefault' = IF pltRcParams = "rcParamsDefault"
                              THEN Preferred(rcParamsDefault, font_name, is_file)
                              ELSE Aliased(rcParamsDefault, rcParams, font_name, is_file)
        /\ serifShared' = (serifShared /\ ~UsesFont(font_name, is_file))
        /\ UNCHANGED <<first, pltRcParams>>

\* mpl_preferences(reset=True): plt.rcParams = plt.rcParamsDefault, then
\* plt.style.use('default'), which stores the values of rcParamsDefault into
\* rcParams.
ResetPreferences ==
    /\ call' = [op |-> "mpl_preferences", reset |-> TRUE, font_name |-> "None"]
    /\ ret' = None
    /\ pltRcParams' = "rcParamsDefault"
    /\ rcParams' = rcParamsDefault
    /\ serifShared' = FALSE
    /\ UNCHANGED <<first, rcParamsDefault>>

(***************************************************************************)
(* Specifications.  A call of a pure function is drawn in the initial      *)
(* state and the function's action runs it; the settings of matplotlib     *)
(* are changed by any sequence of mpl_preferences calls, starting with     *)
(* the 'font.serif' list shared or not; the pure functions never import    *)
(* matplotlib, and their specifications fix the list as not shared.        *)
(***************************************************************************)
InitWith(calls, sharing) ==
    /\ call \in calls
    /\ ret = Pending
    /\ first = NoCall
    /\ rcParams = DefaultSettings
    /\ rcParamsDefault = DefaultSettings
    /\ pltRcParams = "rcParams"
    /\ serifShared \in sharing

NextSize == ParseString \/ FormatNumber \/ ParseBack

SpecSize == InitWith(SizeCalls, {FALSE}) /\ [][NextSize]_vars

SpecChunks == InitWith(ChunkCalls, {FALSE}) /\ [][GetNumberOfChunks]_vars

SpecBounds == InitWith(BoundsCalls, {FALSE}) /\ [][GetExtremeOutlierBounds]_vars

SpecDates == InitWith(DateCalls, {FALSE}) /\ [][FindClosestDate]_vars

NextMpl == SetPreferences \/ ResetPreferences

SpecMpl == InitWith({NoCall}, BOOLEAN) /\ [][NextMpl]_vars

Init == InitWith(SizeCalls \cup ChunkCalls \cup BoundsCalls \cup DateCalls \cup {NoCall},
                 BOOLEAN)

Next ==
    \/ ParseString
    \/ FormatNumber
    \/ ParseBack
    \/ GetNumberOfChunks
    \/ GetExtremeOutlierBounds
    \/ FindClosestDate
    \/ SetPreferences
    \/ ResetPreferences

Spec == Init /\ [][Next]_vars

(***************************************************************************)
(* Properties of parse_size on strings.                                    *)
(***************************************************************************)
\* The call parse_size('<v> <prefix i><suf>', binary).
UnitCall(v, i, suf, binary) ==
    ParseSizeCall(PyStr(v.text \o <<" ">> \o <<units_prefixes[i]>> \o suf), binary, 1)

\* v * factor^i truncated to an integer, in exact arithmetic.
ExactBytes(v, factor, i) ==
    PyInt(v.neg, DivSmall(DecBase, IntScale(IntOf(v.digits), factor, i), 10 ^ v.places))

\* int(float(v) * factor^i), in double precision.
FloatBytes(v, factor, i) ==
    PyInt(v.neg,
          DoubleToInt(MulDouble(DivDouble(ExactDouble(IntOf(v.digits)), 10 ^ v.places),
                                IntToDouble(IntPow(factor, i)))))

\* Whether float(v) * factor^i is computed without rounding.
ExactProduct(v, factor, i) ==
    v.places = 0
    /\ BitLen(ToBinary(IntScale(IntOf(v.digits), factor, i))) <= MantissaBits

\* C1 as stated: the suffix alone decides the unit system, whatever binary is:
\* '<v> <prefix>iB' yields v * 1024^i and '<v> <prefix>B' yields v * 1000^i,
\* truncated to an integer.
C1_SuffixAloneDecides ==
    \A v \in ValueTokens, i \in 1..Len(units_prefixes), suf \in Suffixes :
        (ret # Pending /\ call = UnitCall(v, i, suf, call.binary))
            => ret = ExactBytes(v, IF suf = <<"i", "B">> THEN BinaryFactor
                                   ELSE DecimalFactor, i)

\* C1 amended: an 'iB' suffix yields int(float(v) * 1024^i) whatever binary is;
\* a plain 'B' suffix follows binary: 1024^i when binary is true, 1000^i when it
\* is false.  The product is a double: it is v * factor^i truncated whenever it
\* is computed without rounding.
C1_SuffixOrBinaryDecides ==
    \A v \in ValueTokens, i \in 1..Len(units_prefixes), suf \in Suffixes :
        (ret # Pending /\ call = UnitCall(v, i, suf, call.binary))
            => LET factor == IF suf = <<"i", "B">> \/ call.binary
                             THEN BinaryFactor ELSE DecimalFactor
               IN  /\ ret = FloatBytes(v, factor, i)
                   /\ ExactProduct(v, factor, i) => ret = ExactBytes(v, factor, i)

\* parse_size('1.5 MB', binary=True) has returned 1.5 * 1024^2 = 1572864, and
\* not 1500000.
C1_Witness ==
    /\ call = ParseSizeCall(PyStr(<<"1", ".", "5", " ", "M", "B">>), TRUE, 1)
    /\ ret = PyInt(FALSE, <<572864, 1>>)

UpperSeq(sym) == [k \in 1..Len(sym) |-> Upper(sym[k])]

\* A numeric value followed by one of KB..YB, KiB..YiB (in either case).
WellFormedSize(chars) ==
    LET toks == Split(chars)
    IN  /\ Len(toks) = 2
        /\ ParseFloat(toks[1]).ok
        /\ UpperSeq(toks[2]) \in { UpperSeq(u) : u \in UnitSymbols }

\* C8: parse_size returns an integer only for a numeric value followed by a
\* recognised unit symbol, and raises an error for every malformed string.
C8_MalformedStringsRaise ==
    (call.op = "parse_size" /\ call.size.kind = "str" /\ ret # Pending)
        => /\ ret.kind \in {"int", "raise"}
           /\ ret.kind = "int" <=> WellFormedSize(call.size.chars)

(***************************************************************************)
(* Properties of parse_size on numbers.                                    *)
(***************************************************************************)
AllUnits(binary) == <<<<min_unit>>>> \o UnitsOf(binary)

\* The digits of a rendered mantissa, sign and decimal point dropped.
MantissaDigits(text) ==
    DigitsValue(SelectSeq(text, LAMBDA c : IsDigit(c)))

\* What C3 asks of the text rendered for a byte count: '<mantissa> <unit>',
\* signed as the count is, where the unit is the j-th of B, K.., ..., Y.., the
\* mantissa is |size| / factor^j to within one unit of its last decimal place,
\* and j is the least possible: the mantissa is at most the factor, and at
\* least 1 unless the unit is B.
Renders(chars, size, binary, precision) ==
    LET factor == FactorOf(binary)
        units  == AllUnits(binary)
        toks   == Split(chars)
    IN  /\ Len(toks) = 2
        /\ (toks[1][1] = "-") <=> size.neg
        /\ \E j \in 0..(Len(units) - 1) :
             /\ toks[2] = units[j + 1]
             /\ ~Less(IntPow(factor, j),
                      AbsDiff(IntScale(MantissaDigits(toks[1]), factor, j),
                              IntMul(size.mag, 10 ^ precision)))
             /\ j = 0 \/ ~Less(MantissaDigits(toks[1]), IntOf(10 ^ precision))
             /\ ~Less(IntOf(factor * 10 ^ precision), MantissaDigits(toks[1]))

\* C3: for every byte count, of any magnitude, parse_size returns the text
\* '<mantissa> <unit>' with the least unit that brings the mantissa below the
\* factor; the number never comes back unformatted.
C3_NumbersAreFormatted ==
    (call.op = "parse_size" /\ call.size.kind = "int" /\ first = NoCall
        /\ ret # Pending)
        => /\ ret.kind = "str"
           /\ Renders(ret.chars, call.size, call.binary, call.precision)

\* |a - b| for Python ints a and b.
IntDistance(a, b) ==
    IF a.neg = b.neg THEN AbsDiff(a.mag, b.mag) ELSE IntAdd(a.mag, b.mag)

\* The index in B, K.., ..., Y.. of the unit a rendered size ends with.
ChosenPower(text, binary) ==
    LET unit == Split(text)[2]
    IN  (CHOOSE j \in 1..Len(AllUnits(binary)) : AllUnits(binary)[j] = unit) - 1

\* C2: parse_size(parse_size(n, binary, precision), binary) never fails and
\* returns an integer within the rounding of the mantissa (half a unit of its
\* last decimal place, at the chosen unit) and the truncation (1) of n.
C2_RoundTrip ==
    first # NoCall
        => /\ ret.kind = "int"
           /\ first.ret.kind = "str"
                => LET n      == first.call.size
                       scale  == 10 ^ first.call.precision
                       weight == IntPow(FactorOf(first.call.binary),
                                     ChosenPower(first.ret.chars, first.call.binary))
                   IN  ~Less(IntAdd(weight, IntOf(2 * scale)),
                             IntMul(IntMul(IntDistance(ret, n), scale), 2))

(***************************************************************************)
(* Properties of get_number_of_chunks.                                     *)
(***************************************************************************)
\* C4: get_number_of_chunks returns None exactly when no limit is given, and
\* otherwise the ceiling of the size in MB (or MiB) over the limit, never less
\* than 1: the least n >= 1 for which n chunks of limit MB hold the size; a
\* size above the limit by any amount takes at least 2 chunks.  (A limit of 0,
\* for which the ceiling is not defined, is left aside.)
C4_ChunksCoverTheSize ==
    (call.op = "get_number_of_chunks" /\ ret # Pending
        /\ call.chunk_size_limit # PyInt(FALSE, <<>>))
        => /\ ret = None <=> call.chunk_size_limit = None
           /\ call.chunk_size_limit # None
                => /\ ret.kind = "int"
                   /\ ~ret.neg
                   /\ ret.mag # <<>>
                   /\ LET factor == FactorOf(call.binary)
                          size   == SizeOf(call.file_or_obj)
                          limit  == IntMul(IntMul(call.chunk_size_limit.mag, factor), factor)
                          n      == ToInt(DecBase, ret.mag)
                      IN  /\ ~Less(IntMul(limit, n), size)
                          /\ n > 1 => Less(IntMul(limit, n - 1), size)

(***************************************************************************)
(* Properties of get_extreme_outlier_bounds.                               *)
(***************************************************************************)
\* C5: get_extreme_outlier_bounds returns (max(0, Q1 - k * IQR), Q3 + k * IQR)
\* with IQR = Q3 - Q1, and the lower bound is never negative, for all
\* non-empty data and every k.
C5_BoundsFormula ==
    (call.op = "get_extreme_outlier_bounds" /\ ret # Pending)
        => LET q1  == Percentile(call.num_dat, 1)
               q3  == Percentile(call.num_dat, 3)
               low == 2 * q1 - call.twice_k * (q3 - q1)
           IN  /\ ret.lower_bound >= 0
               /\ ret.lower_bound >= low
               /\ ret.lower_bound \in {0, low}
               /\ ret.upper_bound = 2 * q3 + call.twice_k * (q3 - q1)

\* get_extreme_outlier_bounds([-3, 0, 3], k=1.5) has returned (0, 6.0): Q1 is
\* -1.5, Q3 is 1.5 and Q1 - k * IQR = -6.0 was clamped.
C5_Witness ==
    /\ call = [op |-> "get_extreme_outlier_bounds", num_dat |-> <<-3, 0, 3>>,
               twice_k |-> 3]
    /\ ret = [kind |-> "tuple", lower_bound |-> 0, upper_bound |-> 48]

\* C10: the pair returned by get_extreme_outlier_bounds is an ordered interval,
\* lower bound <= upper bound, for all non-empty data (negative values
\* included) and every k >= 0.
C10_LowerAtMostUpper ==
    (call.op = "get_extreme_outlier_bounds" /\ ret # Pending /\ call.twice_k >= 0)
        => ret.lower_bound <= ret.upper_bound

(***************************************************************************)
(* Properties of find_closest_date.                                        *)
(***************************************************************************)
\* The instant, in hours, that a date string or a datetime value denotes.
Instant(x) ==
    IF x.kind = "datetime" THEN x.t
    ELSE HoursPerDay * x.fields[1] + (IF Len(x.fields) = 2 THEN x.fields[2] ELSE 0)

\* |a - b|
Gap(a, b) == IF a >= b THEN a - b ELSE b - a

\* Whether a result denotes a candidate: a datetime is the candidate's
\* instant, a string is the candidate itself or writes the fields of the
\* candidate that its format names.
Denotes(result, candidate) ==
    IF result.kind = "datetime" THEN result.t = Instant(candidate)
    ELSE IF candidate.kind = "str" THEN result = candidate
    ELSE /\ result.fields[1] = candidate.t \div HoursPerDay
         /\ Len(result.fields) = 2 => result.fields[2] = candidate.t % HoursPerDay

\* C6: find_closest_date returns a date that denotes a candidate of
\* lookup_dates to which no other candidate is strictly closer, for every
\* target and all non-empty candidates, strings and datetime values mixed.
C6_ClosestIsMinimal ==
    (call.op = "find_closest_date" /\ ret # Pending /\ call.lookup_dates # <<>>)
        => \E i \in 1..Len(call.lookup_dates) :
             /\ Denotes(ret, call.lookup_dates[i])
             /\ \A j \in 1..Len(call.lookup_dates) :
                  Gap(Instant(call.lookup_dates[i]), Instant(call.date))
                      <= Gap(Instant(call.lookup_dates[j]), Instant(call.date))

\* find_closest_date of day 1 among a datetime at day 0 and the string of day 1
\* at noon, as_datetime=True, has returned the datetime of day 1 at noon: the
\* second candidate, half a day away, and not the first, a day away.
C6_Witness ==
    /\ call = [op |-> "find_closest_date", date |-> DateString(DateFormat, <<1>>),
               lookup_dates |-> <<Datetime(0), DateString(DefaultFormat, <<1, 12>>)>>,
               as_datetime |-> TRUE, fmt |-> DefaultFormat]
    /\ ret = Datetime(HoursPerDay + 12)

\* C7: the form of the result follows as_datetime and not the form of the
\* candidates: a string rendered in fmt when as_datetime is false, a datetime
\* value when it is true.
C7_FormFollowsPreference ==
    (call.op = "find_closest_date" /\ ret # Pending /\ call.lookup_dates # <<>>)
        => IF call.as_datetime THEN ret.kind = "datetime"
           ELSE ret.kind = "str" /\ ret.fmt = call.fmt

(***************************************************************************)
(* Properties of mpl_preferences.                                          *)
(***************************************************************************)
\* C9: the stored defaults are never modified by any call, and right after
\* mpl_preferences(reset=True), whatever calls came before, plt.rcParams and
\* the settings in force hold the original default values.
C9_ResetRestoresDefaults ==
    /\ rcParamsDefault = DefaultSettings
    /\ (call.op = "mpl_preferences" /\ call.reset)
         => PltRcParams = DefaultSettings /\ rcParams = DefaultSettings

====
